---- MODULE Spec2Model ----
(***************************************************************************)
(* Model of tools/generate_channel_logos.py: the conversion of Android     *)
(* vector drawables to standalone SVG files.                               *)
(*                                                                         *)
(* Python strings are sequences of tokens (mostly single characters), so   *)
(* that strip, startswith, slicing and length are computed, not assumed.   *)
(* A call's outcome is a record [exc, val]: exc names the exception the    *)
(* call raises (NoExc when it returns) and val is the returned value.      *)
(***************************************************************************)
EXTENDS Integers, Sequences, FiniteSets, TLC

VARIABLES
    pc,      \* position of the run (main) or of the call under study
    outDir,  \* OUTPUT_DIR: file name -> [kind, text]
    srcs,    \* the drawable directories: <<directory, file name>> -> source file
    idx,     \* main's position in TARGET_LOGOS
    arg,     \* the argument of the call under study
    ret,     \* the outcome of the last call: [exc, val]
    out      \* what SvgPath.to_svg built for the record in ret

vars == <<pc, outDir, srcs, idx, arg, ret, out>>

(***************************************************************************)
(* Python values                                                           *)
(***************************************************************************)
\* Python's None where a str is expected (Optional[str]); no string equals it.
None == <<"None">>

\* The empty str.
Empty == << >>

\* Truth value of an Optional[str]: None and "" are falsy.
Truthy(s) == s # None /\ s # Empty

\* Python's `a or b` on Optional[str] operands.
Or(a, b) == IF Truthy(a) THEN a ELSE b

NoExc == "NoExc"

Return(v) == [exc |-> NoExc, val |-> v]

Raise(e) == [exc |-> e, val |-> None]

\* str.strip(): leading and trailing whitespace removed.
Whitespace == {" "}

RECURSIVE lstrip(_)
lstrip(s) == IF s # Empty /\ Head(s) \in Whitespace THEN lstrip(Tail(s)) ELSE s

RECURSIVE rstrip(_)
rstrip(s) ==
    IF s # Empty /\ s[Len(s)] \in Whitespace THEN rstrip(SubSeq(s, 1, Len(s) - 1)) ELSE s

strip(s) == rstrip(lstrip(s))

startswith(s, c) == s # Empty /\ Head(s) = c

(***************************************************************************)
(* int(text, 16) and f"{alpha:.3f}"                                        *)
(***************************************************************************)
HexDigits == <<"0", "1", "2", "3", "4", "5", "6", "7", "8", "9",
               "A", "B", "C", "D", "E", "F">>

LowerHexDigits == <<"0", "1", "2", "3", "4", "5", "6", "7", "8", "9",
                    "a", "b", "c", "d", "e", "f">>

IsHexDigit(c) == \E k \in 1..16 : HexDigits[k] = c \/ LowerHexDigits[k] = c

HexDigitValue(c) == (CHOOSE k \in 1..16 : HexDigits[k] = c \/ LowerHexDigits[k] = c) - 1

RECURSIVE HexNumber(_)
HexNumber(s) ==
    IF s = Empty THEN 0 ELSE 16 * HexNumber(SubSeq(s, 1, Len(s) - 1)) + HexDigitValue(s[Len(s)])

\* int(text, 16) on a slice of at most two characters: surrounding
\* whitespace is skipped, one sign is accepted, and what is left must be
\* one or more hexadecimal digits; anything else raises ValueError.
int16_digits(negative, digits) ==
    IF digits = Empty \/ \E k \in 1..Len(digits) : ~IsHexDigit(digits[k])
    THEN Raise("ValueError")
    ELSE Return(IF negative THEN 0 - HexNumber(digits) ELSE HexNumber(digits))

int16_signed(t) ==
    IF t # Empty /\ Head(t) \in {"+", "-"}
    THEN int16_digits(Head(t) = "-", Tail(t))
    ELSE int16_digits(FALSE, t)

int16(text) == int16_signed(strip(text))

Digit(n) == HexDigits[n + 1]

\* Faulty variant of Thousandths: the quotient is cut off, not rounded.
ThousandthsTruncated(n) == (1000 * n) \div 255

\* Round-to-nearest of 1000 * n / 255 for n >= 0 (no n gives an exact tie).
Thousandths(n) == (2000 * n + 255) \div 510

\* f"{t / 1000:.3f}" for 0 <= t.
FormatThousandths(t) ==
    <<Digit(t \div 1000), ".", Digit((t \div 100) % 10), Digit((t \div 10) % 10), Digit(t % 10)>>

\* f"{alpha:.3f}" for alpha = value / 255.
FormatAlpha(value) ==
    IF value < 0 THEN <<"-">> \o FormatThousandths(Thousandths(0 - value))
    ELSE FormatThousandths(Thousandths(value))

(***************************************************************************)
(* normalize_color                                                         *)
(***************************************************************************)
\* Lines 181-183: the 8-digit case, alpha being int(hex_value[:2], 16).
normalize_alpha(alpha, rgb) ==
    IF alpha.exc # NoExc THEN Raise(alpha.exc)
    ELSE Return(<<<<"#">> \o rgb, FormatAlpha(alpha.val)>>)

\* Lines 178-184, hex_value being raw[1:].
normalize_hex(hex_value) ==
    IF Len(hex_value) = 6 THEN Return(<<<<"#">> \o hex_value, None>>)
    ELSE IF Len(hex_value) = 8
         THEN normalize_alpha(int16(SubSeq(hex_value, 1, 2)), SubSeq(hex_value, 3, 8))
    ELSE Return(<<<<"#">> \o hex_value, None>>)

\* Lines 175-184, raw being stripped.
normalize_stripped(raw) ==
    IF ~startswith(raw, "#") THEN Return(<<raw, None>>) ELSE normalize_hex(Tail(raw))

normalize_color(raw) ==
    IF ~Truthy(raw) THEN Return(<<None, None>>) ELSE normalize_stripped(strip(raw))

(***************************************************************************)
(* Element trees (xml.etree.ElementTree.Element)                           *)
(*                                                                         *)
(* An element is [tag, attrib, children]: tag is a string, attrib a        *)
(* function from attribute names (strings) to strings, children a          *)
(* sequence of elements in document order.                                 *)
(***************************************************************************)
ANDROID_NS == <<"{", "http://schemas.android.com/apk/res/android", "}">>

AAPT_NS == <<"{", "http://schemas.android.com/aapt", "}">>

\* f"{ANDROID_NS}name"
Android(name) == ANDROID_NS \o <<name>>

\* dict.get(key): None when the key is absent.
get(attrib, key) == IF key \in DOMAIN attrib THEN attrib[key] ELSE None

\* Element.findall(tag): the direct children with that tag, in document order.
findall(element, tag) == SelectSeq(element.children, LAMBDA child : child.tag = tag)

\* tag.split("}", 1)[1], first being the position of the first "}".
after_brace(tag, first) == SubSeq(tag, first + 1, Len(tag))

strip_ns(tag) ==
    IF \E k \in 1..Len(tag) : tag[k] = "}"
    THEN after_brace(tag, CHOOSE k \in 1..Len(tag) :
                              tag[k] = "}" /\ \A j \in 1..(k - 1) : tag[j] # "}")
    ELSE tag

(***************************************************************************)
(* extract_gradient_color                                                  *)
(***************************************************************************)
\* The loop body for one aapt:attr child, split at its `continue`s and
\* `return`s.  Each step gives <<decided, outcome>>; decided is FALSE where
\* the loop goes on to the next child.
gradient_first_item(items) ==
    IF items # << >> /\ Truthy(get(Head(items).attrib, Android("color")))
    THEN <<TRUE, normalize_color(get(Head(items).attrib, Android("color")))>>
    ELSE <<FALSE, Return(<<None, None>>)>>

\* Faulty variant of gradient_colors: the first item is preferred to the start-color.
gradient_colors_item_first(gradient, start_color) ==
    IF gradient_first_item(findall(gradient, <<"item">>))[1]
    THEN gradient_first_item(findall(gradient, <<"item">>))
    ELSE IF Truthy(start_color) THEN <<TRUE, normalize_color(start_color)>>
    ELSE <<FALSE, Return(<<None, None>>)>>

gradient_colors(gradient, start_color) ==
    IF Truthy(start_color) THEN <<TRUE, normalize_color(start_color)>>
    ELSE gradient_first_item(findall(gradient, <<"item">>))

gradient_find(gradients) ==
    IF gradients = << >> THEN <<FALSE, Return(<<None, None>>)>>
    ELSE gradient_colors(Head(gradients), get(Head(gradients).attrib, Android("startColor")))

gradient_named(attr, name) ==
    IF name # <<"android:fillColor">> THEN <<FALSE, Return(<<None, None>>)>>
    ELSE gradient_find(findall(attr, <<"gradient">>))

gradient_of_attr(attr) ==
    gradient_named(attr, Or(get(attr.attrib, Android("name")), get(attr.attrib, <<"name">>)))

RECURSIVE gradient_scan(_)
gradient_next(step, attrs) == IF step[1] THEN step[2] ELSE gradient_scan(attrs)

\* `for attr in element.findall(...)`, and the `return None, None` after it.
gradient_scan(attrs) ==
    IF attrs = << >> THEN Return(<<None, None>>)
    ELSE gradient_next(gradient_of_attr(Head(attrs)), Tail(attrs))

extract_gradient_color(element) == gradient_scan(findall(element, AAPT_NS \o <<"attr">>))

(***************************************************************************)
(* svg_path_from_element                                                   *)
(*                                                                         *)
(* An SvgPath is a record of its seven fields.  The Optional[SvgPath] the  *)
(* function returns is a sequence of at most one SvgPath (empty for None). *)
(***************************************************************************)
\* Faulty variant of path_build: the opacity of the color is preferred to the alpha
\* attribute.
path_build_color_first(element, d, fill_alpha, nfill, nstroke) ==
    IF nfill.exc # NoExc THEN Raise(nfill.exc)
    ELSE IF nstroke.exc # NoExc THEN Raise(nstroke.exc)
    ELSE Return(<<[d |-> d,
                   fill |-> nfill.val[1],
                   fill_opacity |-> Or(nfill.val[2], fill_alpha),
                   stroke |-> nstroke.val[1],
                   stroke_opacity |->
                       Or(nstroke.val[2], get(element.attrib, Android("strokeAlpha"))),
                   stroke_width |-> get(element.attrib, Android("strokeWidth")),
                   fill_rule |-> get(element.attrib, Android("fillType"))]>>)

\* Lines 139-147, after both normalize_color calls.
path_build(element, d, fill_alpha, nfill, nstroke) ==
    IF nfill.exc # NoExc THEN Raise(nfill.exc)
    ELSE IF nstroke.exc # NoExc THEN Raise(nstroke.exc)
    ELSE Return(<<[d |-> d,
                   fill |-> nfill.val[1],
                   fill_opacity |-> Or(fill_alpha, nfill.val[2]),
                   stroke |-> nstroke.val[1],
                   stroke_opacity |->
                       Or(get(element.attrib, Android("strokeAlpha")), nstroke.val[2]),
                   stroke_width |-> get(element.attrib, Android("strokeWidth")),
                   fill_rule |-> get(element.attrib, Android("fillType"))]>>)

\* Lines 129-135: the gradient's color and alpha replace the raw ones.
path_override(element, d, fill, fill_alpha, grad_fill, grad_alpha) ==
    path_build(element, d,
               IF Truthy(grad_fill) /\ grad_alpha # None THEN grad_alpha ELSE fill_alpha,
               normalize_color(IF Truthy(grad_fill) THEN grad_fill ELSE fill),
               normalize_color(get(element.attrib, Android("strokeColor"))))

\* Lines 122-128, grad being extract_gradient_color(element).
path_gradient(element, d, grad) ==
    IF grad.exc # NoExc THEN Raise(grad.exc)
    ELSE path_override(element, d, get(element.attrib, Android("fillColor")),
                       get(element.attrib, Android("fillAlpha")), grad.val[1], grad.val[2])

\* Lines 119-120.
path_geometry(element, d) ==
    IF ~Truthy(d) THEN Return(<< >>) ELSE path_gradient(element, d, extract_gradient_color(element))

svg_path_from_element(element, override_d) ==
    path_geometry(element, Or(override_d, get(element.attrib, Android("pathData"))))

(***************************************************************************)
(* extract_paths                                                           *)
(***************************************************************************)
min(a, b) == IF a <= b THEN a ELSE b

RECURSIVE pair_loop(_, _, _, _)
RECURSIVE extract_paths(_)
RECURSIVE extend_all(_)

\* Faulty variant of append_rest: what comes later in the loop is put first.
append_rest_reversed(path, rest) ==
    IF rest.exc # NoExc THEN rest ELSE Return(rest.val \o path.val)

\* result.append(path) and the rest of the loop.
append_rest(path, rest) == IF rest.exc # NoExc THEN rest ELSE Return(path.val \o rest.val)

pair_resolved(clip_nodes, path_nodes, i, count, path) ==
    IF path.exc # NoExc THEN Raise(path.exc)
    ELSE append_rest(path, pair_loop(clip_nodes, path_nodes, i + 1, count))

\* Faulty variant of pair_loop: the clip-path's path-data is not handed over.
pair_loop_own_geometry(clip_nodes, path_nodes, i, count) ==
    IF i > count THEN Return(<< >>)
    ELSE pair_resolved(clip_nodes, path_nodes, i, count,
                       svg_path_from_element(path_nodes[i], None))

\* Lines 97-103: the pairing loop of a group from index i (counted from 1).
pair_loop(clip_nodes, path_nodes, i, count) ==
    IF i > count THEN Return(<< >>)
    ELSE pair_resolved(clip_nodes, path_nodes, i, count,
                       svg_path_from_element(path_nodes[i],
                                             get(clip_nodes[i].attrib, Android("pathData"))))

extend_walked(first, children) ==
    IF first.exc # NoExc THEN first ELSE append_rest(first, extend_all(children))

\* `for child in element: result.extend(extract_paths(child))`
extend_all(children) ==
    IF children = << >> THEN Return(<< >>)
    ELSE extend_walked(extract_paths(Head(children)), Tail(children))

\* Lines 94-107.
extract_group(element, clip_nodes, path_nodes) ==
    IF clip_nodes # << >> /\ path_nodes # << >>
    THEN pair_loop(clip_nodes, path_nodes, 1, min(Len(clip_nodes), Len(path_nodes)))
    ELSE extend_all(element.children)

extract_tagged(element, tag) ==
    IF tag = <<"path">> THEN svg_path_from_element(element, None)
    ELSE IF tag = <<"group">>
         THEN extract_group(element,
                  SelectSeq(element.children,
                            LAMBDA child : strip_ns(child.tag) = <<"clip-path">>),
                  SelectSeq(element.children, LAMBDA child : strip_ns(child.tag) = <<"path">>))
    ELSE IF tag = <<"clip-path">> THEN Return(<< >>)
    ELSE extend_all(element.children)

extract_paths(element) == extract_tagged(element, strip_ns(element.tag))

(***************************************************************************)
(* SvgPath.to_svg                                                          *)
(***************************************************************************)
\* f"{name}=\"{value}\""
Attr(name, value) == <<name, "=", "\"">> \o value \o <<"\"">>

\* separator.join(strings)
RECURSIVE join(_, _)
join(separator, strings) ==
    IF strings = << >> THEN Empty
    ELSE IF Len(strings) = 1 THEN Head(strings)
    ELSE Head(strings) \o separator \o join(separator, Tail(strings))

\* Faulty variant of attrs: no fill attribute when the fill is absent.
attrs_fill_omitted(self) ==
    <<Attr("d", self.d)>>
    \o (IF Truthy(self.fill) THEN <<Attr("fill", self.fill)>> ELSE << >>)
    \o (IF Truthy(self.fill_opacity) THEN <<Attr("fill-opacity", self.fill_opacity)>> ELSE << >>)
    \o (IF Truthy(self.stroke) THEN <<Attr("stroke", self.stroke)>> ELSE << >>)
    \o (IF Truthy(self.stroke_opacity)
        THEN <<Attr("stroke-opacity", self.stroke_opacity)>> ELSE << >>)
    \o (IF Truthy(self.stroke_width) THEN <<Attr("stroke-width", self.stroke_width)>> ELSE << >>)
    \o (IF Truthy(self.fill_rule) THEN <<Attr("fill-rule", self.fill_rule)>> ELSE << >>)

\* The list `attrs` that to_svg builds.
attrs(self) ==
    <<Attr("d", self.d)>>
    \o (IF Truthy(self.fill) THEN <<Attr("fill", self.fill)>>
        ELSE <<Attr("fill", <<"n", "o", "n", "e">>)>>)
    \o (IF Truthy(self.fill_opacity) THEN <<Attr("fill-opacity", self.fill_opacity)>> ELSE << >>)
    \o (IF Truthy(self.stroke) THEN <<Attr("stroke", self.stroke)>> ELSE << >>)
    \o (IF Truthy(self.stroke_opacity)
        THEN <<Attr("stroke-opacity", self.stroke_opacity)>> ELSE << >>)
    \o (IF Truthy(self.stroke_width) THEN <<Attr("stroke-width", self.stroke_width)>> ELSE << >>)
    \o (IF Truthy(self.fill_rule) THEN <<Attr("fill-rule", self.fill_rule)>> ELSE << >>)

to_svg(self) == <<"  <path ">> \o join(<<" ">>, attrs(self)) \o <<" />">>

(***************************************************************************)
(* float(text) and the formatting of a float in an f-string                *)
(*                                                                         *)
(* Covers the decimal literals digits[.digits] and .digits, with           *)
(* surrounding whitespace; every other text over the alphabet used here    *)
(* raises ValueError.  A float is [whole, frac]: the integer part and the  *)
(* fraction digits without trailing zeros.                                 *)
(***************************************************************************)
IsDigit(c) == \E k \in 1..10 : HexDigits[k] = c

RECURSIVE DecimalNumber(_)
DecimalNumber(s) ==
    IF s = Empty THEN 0
    ELSE 10 * DecimalNumber(SubSeq(s, 1, Len(s) - 1)) + HexDigitValue(s[Len(s)])

RECURSIVE DropTrailingZeros(_)
DropTrailingZeros(s) ==
    IF s # Empty /\ s[Len(s)] = "0" THEN DropTrailingZeros(SubSeq(s, 1, Len(s) - 1)) ELSE s

RECURSIVE DecimalDigits(_)
DecimalDigits(n) ==
    IF n < 10 THEN <<Digit(n)>> ELSE DecimalDigits(n \div 10) \o <<Digit(n % 10)>>

float_number(whole, frac) ==
    IF \/ whole \o frac = Empty
       \/ \E k \in 1..Len(whole) : ~IsDigit(whole[k])
       \/ \E k \in 1..Len(frac) : ~IsDigit(frac[k])
    THEN Raise("ValueError")
    ELSE Return([whole |-> DecimalNumber(whole), frac |-> DropTrailingZeros(frac)])

float_split(t, dots) ==
    IF dots = {} THEN float_number(t, Empty)
    ELSE IF Cardinality(dots) > 1 THEN Raise("ValueError")
    ELSE float_number(SubSeq(t, 1, (CHOOSE k \in dots : TRUE) - 1),
                      SubSeq(t, (CHOOSE k \in dots : TRUE) + 1, Len(t)))

float_stripped(t) == float_split(t, {k \in 1..Len(t) : t[k] = "."})

float(text) == float_stripped(strip(text))

\* f"{value}" for a float.
FormatFloat(value) ==
    DecimalDigits(value.whole) \o <<".">> \o (IF value.frac = Empty THEN <<"0">> ELSE value.frac)

(***************************************************************************)
(* vector_to_svg                                                           *)
(*                                                                         *)
(* A source file is [exists, wellformed, root]; ET.parse raises ParseError *)
(* on a file that is not well-formed XML.                                  *)
(***************************************************************************)
RECURSIVE rendered(_)
\* [path.to_svg() for path in paths]
rendered(paths) ==
    IF paths = << >> THEN << >> ELSE <<to_svg(Head(paths))>> \o rendered(Tail(paths))

\* Lines 76-82, w and h being the formatted viewport.
svg_lines(w, h, paths) ==
    << <<"<?xml version=\"1.0\" encoding=\"utf-8\"?>">>,
       <<"<svg xmlns=\"http://www.w3.org/2000/svg\" ">>
         \o Attr("width", w) \o <<" ">> \o Attr("height", h) \o <<" ">>
         \o Attr("viewBox", <<"0", " ", "0", " ">> \o w \o <<" ">> \o h) \o <<">">> >>
    \o rendered(paths)
    \o << <<"</svg>">> >>

\* Lines 76-83.
vector_emit(viewport_width, viewport_height, paths) ==
    IF paths.exc # NoExc THEN Raise(paths.exc)
    ELSE Return(join(<<"\n">>, svg_lines(FormatFloat(viewport_width.val),
                                         FormatFloat(viewport_height.val), paths.val)))

\* Lines 70-74.
vector_height(root, viewport_width, viewport_height) ==
    IF viewport_height.exc # NoExc THEN Raise(viewport_height.exc)
    ELSE vector_emit(viewport_width, viewport_height, extend_all(root.children))

\* Lines 69-70.
vector_width(root, viewport_width) ==
    IF viewport_width.exc # NoExc THEN Raise(viewport_width.exc)
    ELSE IF Android("viewportHeight") \notin DOMAIN root.attrib THEN Raise("KeyError")
    ELSE vector_height(root, viewport_width, float(root.attrib[Android("viewportHeight")]))

\* Lines 68-69.
vector_root(root) ==
    IF Android("viewportWidth") \notin DOMAIN root.attrib THEN Raise("KeyError")
    ELSE vector_width(root, float(root.attrib[Android("viewportWidth")]))

vector_to_svg(file) == IF ~file.wellformed THEN Raise("ParseError") ELSE vector_root(file.root)

(***************************************************************************)
(* Elements and source files used by the model                             *)
(***************************************************************************)
Element(tag, attrib, children) == [tag |-> tag, attrib |-> attrib, children |-> children]

NoAttrib == << >>

Vector(attrib, children) == Element(<<"vector">>, attrib, children)

Viewport(w, h) ==
    (IF w = None THEN NoAttrib ELSE (Android("viewportWidth") :> w))
    @@ (IF h = None THEN NoAttrib ELSE (Android("viewportHeight") :> h))

PathElement(attrib) == Element(<<"path">>, attrib, << >>)

File(root) == [exists |-> TRUE, wellformed |-> TRUE, root |-> root]

NoRoot == Element(Empty, NoAttrib, << >>)

\* A file that is not well-formed XML.
MalformedFile == [exists |-> TRUE, wellformed |-> FALSE, root |-> NoRoot]

\* No file at that path.
AbsentFile == [exists |-> FALSE, wellformed |-> FALSE, root |-> NoRoot]

(***************************************************************************)
(* main and convert_logo                                                   *)
(***************************************************************************)
TARGET_LOGOS ==
    << <<"channel_logo_", "das_erste">>, <<"channel_logo_", "zdf">>,
       <<"channel_logo_", "arte">>, <<"channel_logo_", "3sat">>,
       <<"channel_logo_", "kika">>, <<"channel_logo_", "phoenix">>,
       <<"channel_logo_", "tagesschau24">>, <<"channel_logo_", "ard_alpha">>,
       <<"channel_logo_", "zdf_info">>, <<"channel_logo_", "zdf_neo">>,
       <<"channel_logo_", "one">>, <<"channel_logo_", "br">>,
       <<"channel_logo_", "hr">>, <<"channel_logo_", "mdr">>,
       <<"channel_logo_", "ndr">>, <<"channel_logo_", "rbb">>,
       <<"channel_logo_", "rb">>, <<"channel_logo_", "sr">>,
       <<"channel_logo_", "swr">>, <<"channel_logo_", "wdr">>,
       <<"channel_logo_", "parlamentsfernsehen">> >>

\* How many of the TARGET_LOGOS the modelled run goes through.
NumLogos == 2

Logos == SubSeq(TARGET_LOGOS, 1, NumLogos)

ANDROID_DRAWABLE_DIR == "drawable"

ANDROID_DRAWABLE_NIGHT_DIR == "drawable-night"

\* Faulty variant of GlobMatches: only the names this run writes are matched.
GlobMatchesTargetsOnly(name) ==
    \E j \in 1..NumLogos, suffix \in {Empty, <<"_dark">>} :
        name = Logos[j] \o suffix \o <<".svg">>

\* Path.glob("channel_logo_*.svg") on a file name.
GlobMatches(name) ==
    Len(name) >= 2 /\ name[1] = "channel_logo_" /\ name[Len(name)] = ".svg"

\* An exception that leaves convert_logo, and the directory as the call left it.
RaiseIn(e, dir) == [exc |-> e, val |-> dir]

\* Faulty variant of write_text: the file is opened for writing before the conversion,
\* so a failed conversion leaves it empty.
write_text_opened_first(dir, svg_path, svg_content) ==
    IF svg_content.exc # NoExc
    THEN RaiseIn(svg_content.exc,
                 [n \in DOMAIN dir \cup {svg_path} |->
                     IF n = svg_path THEN [kind |-> "file", text |-> Empty] ELSE dir[n]])
    ELSE Return([n \in DOMAIN dir \cup {svg_path} |->
                    IF n = svg_path THEN [kind |-> "file", text |-> svg_content.val]
                    ELSE dir[n]])

\* svg_path.write_text(svg_content), svg_content being vector_to_svg's outcome.
write_text(dir, svg_path, svg_content) ==
    IF svg_content.exc # NoExc THEN RaiseIn(svg_content.exc, dir)
    ELSE IF svg_path \in DOMAIN dir /\ dir[svg_path].kind = "dir"
         THEN RaiseIn("IsADirectoryError", dir)
    ELSE Return([n \in DOMAIN dir \cup {svg_path} |->
                    IF n = svg_path THEN [kind |-> "file", text |-> svg_content.val]
                    ELSE dir[n]])

convert_path(dir, vector_path, svg_path, optional) ==
    IF ~srcs[vector_path].exists
    THEN IF optional THEN Return(dir) ELSE RaiseIn("FileNotFoundError", dir)
    ELSE write_text(dir, svg_path, vector_to_svg(srcs[vector_path]))

\* convert_logo against the output directory `dir`: val is the directory
\* as the call leaves it.
convert_logo(dir, logo_name, source_dir, suffix, optional) ==
    convert_path(dir, <<source_dir, logo_name \o <<".xml">> >>,
                 logo_name \o suffix \o <<".svg">>, optional)

(***************************************************************************)
(* The run of main                                                         *)
(*                                                                         *)
(* One step per file the glob loop unlinks and one per convert_logo call.  *)
(* pc is "unlink" in the glob loop, "base" and "dark" before the two       *)
(* convert_logo calls of TARGET_LOGOS[idx], "done" after the last one, and *)
(* "failed" once an exception has left main; ret then holds it, and arg    *)
(* the arguments of the last convert_logo call.                                  *)
(***************************************************************************)
GoodFile ==
    File(Vector(Viewport(<<"2", "4">>, <<"2", "4">>),
                <<PathElement((Android("pathData") :> <<"M", "0">>)
                              @@ (Android("fillColor") :> <<"#", "F", "F", "0", "0", "0", "0">>))>>))

\* The root lacks viewportHeight.
NoViewportFile == File(Vector(Viewport(<<"2", "4">>, None), << >>))

\* viewportWidth is no number.
BadNumberFile == File(Vector(Viewport(<<"x">>, <<"2", "4">>), << >>))

SourceFiles == {AbsentFile, MalformedFile, NoViewportFile, BadNumberFile, GoodFile}

SourcePaths ==
    {<<d, Logos[j] \o <<".xml">> >> :
        d \in {ANDROID_DRAWABLE_DIR, ANDROID_DRAWABLE_NIGHT_DIR}, j \in 1..NumLogos}

StaleFile == [kind |-> "file", text |-> <<"stale">>]

\* What OUTPUT_DIR may hold before the run: an output of an earlier run
\* that this run may not write again, an output for a logo that is no
\* longer a target, a file the glob does not match, and a directory whose
\* name the glob matches.
InitialEntries ==
    (Logos[1] \o <<"_dark">> \o <<".svg">> :> StaleFile)
    @@ (<<"channel_logo_", "old", ".svg">> :> StaleFile)
    @@ (<<"README", ".md">> :> StaleFile)
    @@ (<<"channel_logo_", "dir", ".svg">> :> [kind |-> "dir", text |-> Empty])

NoCall == [logo_name |-> Empty, source_dir |-> "", suffix |-> Empty]

InitMain ==
    /\ pc = "unlink"
    /\ \E names \in SUBSET DOMAIN InitialEntries :
           outDir = [n \in names |-> InitialEntries[n]]
    /\ srcs \in [SourcePaths -> SourceFiles]
    /\ idx = 1
    /\ arg = NoCall
    /\ ret = Return(None)
    /\ out = << >>

\* for svg_file in OUTPUT_DIR.glob("channel_logo_*.svg"): svg_file.unlink()
Unlink ==
    /\ pc = "unlink"
    /\ \E svg_file \in DOMAIN outDir :
           /\ GlobMatches(svg_file)
           /\ IF outDir[svg_file].kind = "dir"
              THEN /\ pc' = "failed"
                   /\ ret' = Raise("IsADirectoryError")
                   /\ outDir' = outDir
              ELSE /\ outDir' = [n \in DOMAIN outDir \ {svg_file} |-> outDir[n]]
                   /\ UNCHANGED <<pc, ret>>
    /\ UNCHANGED <<srcs, idx, arg, out>>

\* The glob loop is over.
EndUnlink ==
    /\ pc = "unlink"
    /\ \A n \in DOMAIN outDir : ~GlobMatches(n)
    /\ pc' = IF idx <= Len(Logos) THEN "base" ELSE "done"
    /\ UNCHANGED <<outDir, srcs, idx, arg, ret, out>>

\* convert_logo(logo_name, ANDROID_DRAWABLE_DIR)
ConvertBase ==
    /\ pc = "base"
    /\ \E call \in {convert_logo(outDir, Logos[idx], ANDROID_DRAWABLE_DIR, Empty, FALSE)} :
           /\ outDir' = call.val
           /\ IF call.exc # NoExc
              THEN pc' = "failed" /\ ret' = Raise(call.exc)
              ELSE pc' = "dark" /\ ret' = Return(None)
    /\ arg' = [logo_name |-> Logos[idx], source_dir |-> ANDROID_DRAWABLE_DIR,
               suffix |-> Empty]
    /\ UNCHANGED <<srcs, idx, out>>

\* convert_logo(logo_name, ANDROID_DRAWABLE_NIGHT_DIR, suffix="_dark", optional=True)
ConvertDark ==
    /\ pc = "dark"
    /\ \E call \in {convert_logo(outDir, Logos[idx], ANDROID_DRAWABLE_NIGHT_DIR,
                                 <<"_dark">>, TRUE)} :
           /\ outDir' = call.val
           /\ IF call.exc # NoExc
              THEN pc' = "failed" /\ ret' = Raise(call.exc) /\ idx' = idx
              ELSE /\ pc' = IF idx < Len(Logos) THEN "base" ELSE "done"
                   /\ idx' = idx + 1
                   /\ ret' = Return(None)
    /\ arg' = [logo_name |-> Logos[idx], source_dir |-> ANDROID_DRAWABLE_NIGHT_DIR,
               suffix |-> <<"_dark">>]
    /\ UNCHANGED <<srcs, out>>

NextMain == Unlink \/ EndUnlink \/ ConvertBase \/ ConvertDark

SpecMain == InitMain /\ [][NextMain]_vars

(***************************************************************************)
(* Properties of the run of main                                           *)
(***************************************************************************)
OutputName(logo_name, suffix) == logo_name \o suffix \o <<".svg">>

NightSource(j) == srcs[<<ANDROID_DRAWABLE_NIGHT_DIR, Logos[j] \o <<".xml">> >>]

BaseSource(j) == srcs[<<ANDROID_DRAWABLE_DIR, Logos[j] \o <<".xml">> >>]

ExpectedOutputs ==
    {OutputName(Logos[j], Empty) : j \in 1..NumLogos}
    \cup {OutputName(Logos[j], <<"_dark">>) : j \in {k \in 1..NumLogos : NightSource(k).exists}}

\* A file name of the form channel_logo_*.svg.
IsChannelLogoSvg(n) == Len(n) >= 2 /\ Head(n) = "channel_logo_" /\ n[Len(n)] = ".svg"

Deleted == \E n \in DOMAIN outDir : n \notin DOMAIN outDir'

Wrote == \E n \in DOMAIN outDir' : n \notin DOMAIN outDir \/ outDir'[n] # outDir[n]

\* C1. After a run of main that ends without error, the files of OUTPUT_DIR
\* that match channel_logo_*.svg are exactly <name>.svg for every target and
\* <name>_dark.svg for the targets whose night source exists, each holding
\* what this run converted (no file of an earlier run is left); files are
\* deleted only in the glob loop, written only by the convert_logo calls, and
\* the run never returns to the glob loop, so every deletion precedes the
\* first write.
C1_OutputsReplaced ==
    /\ [](pc = "done" =>
            /\ {n \in DOMAIN outDir : IsChannelLogoSvg(n)} = ExpectedOutputs
            /\ \A j \in 1..NumLogos :
                   /\ outDir[OutputName(Logos[j], Empty)]
                          = [kind |-> "file", text |-> vector_to_svg(BaseSource(j)).val]
                   /\ NightSource(j).exists =>
                          outDir[OutputName(Logos[j], <<"_dark">>)]
                              = [kind |-> "file", text |-> vector_to_svg(NightSource(j)).val])
    /\ [][/\ Deleted => pc = "unlink" /\ ~Wrote
          /\ Wrote => pc \in {"base", "dark"} /\ ~Deleted
          /\ pc # "unlink" => pc' # "unlink"]_vars

\* A run that ended without error, over a directory that held something
\* before, with a night source present for one target and absent for another.
C1_Witness ==
    /\ pc = "done"
    /\ <<"README", ".md">> \in DOMAIN outDir
    /\ \E j, k \in 1..NumLogos : NightSource(j).exists /\ ~NightSource(k).exists

\* What the defect of a source file makes vector_to_svg raise.
DefectOf(file) ==
    IF ~file.wellformed THEN "ParseError"
    ELSE IF \E key \in {Android("viewportWidth"), Android("viewportHeight")} :
                key \notin DOMAIN file.root.attrib
         THEN "KeyError"
    ELSE "ValueError"

\* C2. When a convert_logo call fails (missing or unparsable viewport, or a
\* source that is not well-formed XML), the exception reaches main with the
\* output file of that call neither created nor written, the exception is
\* the one of the source's defect, and the run stops there: no output of a
\* later call exists and no further step is taken.
C2_FailureBeforeWrite ==
    (pc = "failed" /\ arg # NoCall /\ ret.exc \in {"ParseError", "KeyError", "ValueError"}) =>
        /\ OutputName(arg.logo_name, arg.suffix) \notin DOMAIN outDir
        /\ ret.exc = DefectOf(srcs[<<arg.source_dir, arg.logo_name \o <<".xml">> >>])
        /\ arg.suffix = Empty => OutputName(arg.logo_name, <<"_dark">>) \notin DOMAIN outDir
        /\ \A j \in (idx + 1)..NumLogos :
               /\ OutputName(Logos[j], Empty) \notin DOMAIN outDir
               /\ OutputName(Logos[j], <<"_dark">>) \notin DOMAIN outDir
        /\ ~ENABLED NextMain

\* A conversion failed on an asset that is not the last one, after an
\* earlier asset was written.
C2_Witness ==
    /\ pc = "failed"
    /\ arg # NoCall
    /\ ret.exc \in {"ParseError", "KeyError", "ValueError"}
    /\ 1 < idx /\ idx < NumLogos + 1
    /\ OutputName(Logos[1], Empty) \in DOMAIN outDir

(***************************************************************************)
(* normalize_color on its own                                              *)
(***************************************************************************)
\* The characters tried as the alpha pair of an 8-digit color.
AlphaChars ==
    {HexDigits[k] : k \in 1..16} \cup {"a", "f", "Z", "g", "-", "+", " ", "_", "x"}

Red == <<"F", "F", "0", "0", "0", "0">>

Colors ==
    {<<"#", a, b>> \o Red : a, b \in AlphaChars}
    \cup {None, Empty, <<" ">>, <<"r", "e", "d">>, <<" ", "r", "e", "d", " ">>,
          <<"#">>, <<"#", "F", "F", "F">>, <<"#", "1", "1", "2", "2", "3", "3">>,
          <<"#", "Z", "Z", "Z", "Z", "Z", "Z">>,
          <<" ", "#", "8", "0">> \o Red \o <<" ">>,
          <<"#", "8", "0">> \o Red \o <<"0">>}

Idle == outDir = << >> /\ srcs = << >> /\ idx = 0 /\ out = << >>

InitColor == pc = "call" /\ arg \in Colors /\ ret = Return(None) /\ Idle

NormalizeColor ==
    /\ pc = "call"
    /\ pc' = "done"
    /\ ret' = normalize_color(arg)
    /\ UNCHANGED <<outDir, srcs, idx, arg, out>>

NextColor == NormalizeColor

SpecColor == InitColor /\ [][NextColor]_vars

\* "#80FF0000"
HalfRed == <<"#", "8", "0">> \o Red

\* C8 as stated: normalizing #80FF0000 yields color #FF0000 and opacity "0.314".
C8_AsStated ==
    (pc = "done" /\ arg = HalfRed) =>
        ret = Return(<<<<"#">> \o Red, <<"0", ".", "3", "1", "4">>>>)

\* The number of thousandths an opacity text d.ddd stands for.
OpacityThousandths(text) == DecimalNumber(<<text[1], text[3], text[4], text[5]>>)

IsHexColor8(raw) ==
    Len(raw) = 9 /\ raw[1] = "#" /\ \A k \in 2..9 : IsHexDigit(raw[k])

\* C8, amended.  Normalizing #80FF0000 yields color #FF0000 and opacity
\* "0.502": the alpha pair is read as hexadecimal (0x80 = 128) and 128/255
\* rounds to 0.502.  In general #AARRGGBB with hexadecimal digits normalizes
\* to color #RRGGBB and an opacity text of the form d.ddd that is the
\* multiple of 0.001 nearest to alpha / 255.
C8_OpacityLaw ==
    /\ (pc = "done" /\ arg = HalfRed) =>
           ret = Return(<<<<"#">> \o Red, <<"0", ".", "5", "0", "2">>>>)
    /\ (pc = "done" /\ IsHexColor8(arg)) =>
           /\ ret.exc = NoExc
           /\ ret.val[1] = <<"#">> \o SubSeq(arg, 4, 9)
           /\ Len(ret.val[2]) = 5
           /\ ret.val[2][2] = "."
           /\ \A k \in {1, 3, 4, 5} : IsDigit(ret.val[2][k])
           /\ 2 * (255 * OpacityThousandths(ret.val[2]) - 1000 * HexNumber(SubSeq(arg, 2, 3)))
                  \in -255..255

\* #80FF0000 has been normalized.
C8_Witness == pc = "done" /\ arg = HalfRed /\ ret.exc = NoExc

(***************************************************************************)
(* svg_path_from_element and SvgPath.to_svg on their own                   *)
(*                                                                         *)
(* arg is [element, override_d].  Resolve calls svg_path_from_element;     *)
(* Serialize calls to_svg on the record it returned, if it returned one.   *)
(***************************************************************************)
\* The attribute android:<name>, or nothing when value is None.
Opt(name, value) == IF value = None THEN NoAttrib ELSE (Android(name) :> value)

HalfBlack == <<"#", "4", "0", "0", "0", "0", "0", "0", "0">>

\* An 8-digit color whose alpha pair is not hexadecimal.
BadColor == <<"#", "Z", "Z", "1", "1", "2", "2", "3", "3">>

Gray == <<"#", "1", "1", "2", "2", "3", "3">>

PathDatas == {None, Empty, <<"M", "0">>}

Overrides == {None, Empty, <<"C", "0">>}

FillColors == {None, Empty, <<" ">>, <<"r", "e", "d">>, Gray, HalfRed, BadColor}

FillAlphas == {None, Empty, <<"0", ".", "5">>}

StrokeColors == {None, Empty, <<"b", "l", "u", "e">>, HalfBlack}

StrokeAlphas == {None, Empty, <<"0", ".", "7">>}

StrokeWidths == {None, Empty, <<"2">>}

FillTypes == {None, Empty, <<"e", "v", "e", "n", "O", "d", "d">>}

Item(color) == Element(<<"item">>, Opt("color", color), << >>)

Gradient(start_color, items) == Element(<<"gradient">>, Opt("startColor", start_color), items)

\* <aapt:attr name=...>: name under the android namespace, plain_name without.
AaptAttr(name, plain_name, children) ==
    Element(AAPT_NS \o <<"attr">>,
            Opt("name", name) @@ (IF plain_name = None THEN NoAttrib ELSE (<<"name">> :> plain_name)),
            children)

FillColorName == <<"android:fillColor">>

StartColors ==
    {None, Empty, <<" ">>, <<"#", "8", "0", "A", "A", "0", "0", "0", "0">>,
     <<"#", "0", "0", "B", "B", "0", "0">>, BadColor}

ItemLists ==
    {<< >>,
     <<Item(None)>>,
     <<Item(<<"#", "4", "0", "C", "C", "0", "0", "0", "0">>)>>,
     <<Item(None), Item(<<"#", "0", "0", "0", "0", "D", "D">>)>>,
     <<Item(<<"#", "0", "0", "0", "0", "D", "D">>), Item(<<"#", "E", "E", "0", "0", "0", "0">>)>>}

Gradients == {Gradient(start_color, items) : start_color \in StartColors, items \in ItemLists}

PlainGradient == Gradient(<<"#", "0", "0", "B", "B", "0", "0">>, << >>)

\* The aapt:attr children tried: the fill-color definition with every
\* gradient and with none, and definitions that are named otherwise.
AttrChildren ==
    {AaptAttr(FillColorName, None, <<g>>) : g \in Gradients}
    \cup {AaptAttr(FillColorName, None, << >>)}
    \cup {AaptAttr(name[1], name[2], children) :
            name \in {<<None, FillColorName>>, <<Empty, FillColorName>>,
                      <<<<"android:strokeColor">>, FillColorName>>, <<None, None>>},
            children \in {<< >>, <<PlainGradient>>}}

\* The aapt:attr children put before the last one: definitions after which
\* the loop of extract_gradient_color goes on, and one at which it returns.
LeadingChildren ==
    {AaptAttr(FillColorName, None, << >>),
     AaptAttr(<<"android:strokeColor">>, None, <<PlainGradient>>),
     AaptAttr(FillColorName, None, <<Gradient(None, << >>)>>),
     AaptAttr(FillColorName, None, <<Gradient(Empty, <<Item(None)>>)>>),
     AaptAttr(None, FillColorName, <<PlainGradient>>)}

\* How many aapt:attr children a path element is given.
MaxAttrChildren == 2

RECURSIVE SeqsUpTo(_, _)
\* The sequences over S of length at most n.
SeqsUpTo(S, n) ==
    IF n = 0 THEN {<< >>}
    ELSE {<< >>} \cup {<<x>> \o t : x \in S, t \in SeqsUpTo(S, n - 1)}

\* Path elements that vary in their own attributes.
PlainPaths ==
    {Element(<<"path">>,
             Opt("pathData", d) @@ Opt("fillColor", fill) @@ Opt("fillAlpha", fill_alpha)
             @@ Opt("strokeColor", stroke) @@ Opt("strokeAlpha", stroke_alpha)
             @@ Opt("strokeWidth", stroke_width) @@ Opt("fillType", fill_rule),
             children) :
        d \in PathDatas, fill \in FillColors, fill_alpha \in FillAlphas,
        stroke \in StrokeColors, stroke_alpha \in StrokeAlphas,
        stroke_width \in StrokeWidths, fill_rule \in FillTypes,
        children \in {<< >>, <<AaptAttr(FillColorName, None, <<PlainGradient>>)>>}}

\* Path elements that vary in their aapt:attr children.
GradientPaths ==
    {Element(<<"path">>,
             Opt("pathData", <<"M", "0">>) @@ Opt("fillColor", fill[1]) @@ Opt("fillAlpha", fill[2]),
             children) :
        fill \in {<<None, None>>, <<Gray, <<"0", ".", "5">>>>, <<HalfRed, None>>},
        children \in {<< >>} \cup {Append(before, last) :
                                       before \in SeqsUpTo(LeadingChildren, MaxAttrChildren - 1),
                                       last \in AttrChildren}}

InitResolve ==
    /\ pc = "call"
    /\ \/ arg \in [element : PlainPaths, override_d : Overrides]
       \/ arg \in [element : GradientPaths, override_d : {None}]
    /\ ret = Return(None)
    /\ Idle

Resolve ==
    /\ pc = "call"
    /\ pc' = "resolved"
    /\ ret' = svg_path_from_element(arg.element, arg.override_d)
    /\ UNCHANGED <<outDir, srcs, idx, arg, out>>

Serialize ==
    /\ pc = "resolved"
    /\ ret.exc = NoExc
    /\ ret.val # << >>
    /\ pc' = "done"
    /\ out' = [attrs |-> attrs(ret.val[1]), text |-> to_svg(ret.val[1])]
    /\ UNCHANGED <<outDir, srcs, idx, arg, ret>>

NextResolve == Resolve \/ Serialize

SpecResolve == InitResolve /\ [][NextResolve]_vars

(***************************************************************************)
(* Properties of svg_path_from_element and to_svg                          *)
(***************************************************************************)
\* The attribute android:<name> of the element under study.
Raw(name) == get(arg.element.attrib, Android(name))

Resolved == pc \in {"resolved", "done"}

\* The call returned a record.
Returned == Resolved /\ ret.exc = NoExc /\ ret.val # << >>

\* C5 as stated: every record has a non-empty geometry, a path element with
\* no or an empty path-data and no override yields no record, and absent or
\* empty geometry is the only reason for which the resolver yields no record.
C5_AsStated ==
    Resolved =>
        /\ Returned => Truthy(ret.val[1].d)
        /\ (~Truthy(Raw("pathData")) /\ arg.override_d = None) => ret = Return(<< >>)
        /\ Truthy(Or(arg.override_d, Raw("pathData"))) => Returned

\* Whether an attribute value counts: as the attribute being there, or as
\* the attribute being there with a non-empty value.
Exists(value) == value # None

\* An aapt:attr child that defines the fill color by a gradient.
IsFillDef(child) ==
    /\ child.tag = AAPT_NS \o <<"attr">>
    /\ Or(get(child.attrib, Android("name")), get(child.attrib, <<"name">>)) = FillColorName
    /\ findall(child, <<"gradient">>) # << >>

FillDefs(element) == SelectSeq(element.children, IsFillDef)

\* The color a fill-color definition stands for by the stated precedence:
\* its gradient's start-color if there, else its first item's color if
\* there, else None.
ChosenColor(def, There(_)) ==
    LET gradient == Head(findall(def, <<"gradient">>))
        items == findall(gradient, <<"item">>)
        start_color == get(gradient.attrib, Android("startColor"))
        first_color == IF items = << >> THEN None ELSE get(Head(items).attrib, Android("color"))
    IN  IF There(start_color) THEN start_color
        ELSE IF There(first_color) THEN first_color
        ELSE None

\* The representative color of an element: that of its first fill-color
\* definition that stands for one.
Representative(element, There(_)) ==
    LET defs == FillDefs(element)
        standing == {k \in 1..Len(defs) : ChosenColor(defs[k], There) # None}
    IN  IF standing = {} THEN None
        ELSE ChosenColor(defs[CHOOSE k \in standing : \A j \in standing : k <= j], There)

\* What the record must hold when `color` is the representative color.
FillFollows(color) ==
    LET over == normalize_color(color)
        own == normalize_color(Raw("fillColor"))
    IN  IF over.exc # NoExc THEN ret.exc = over.exc
        ELSE IF Truthy(over.val[1])
             THEN Returned =>
                      /\ ret.val[1].fill = over.val[1]
                      /\ ret.val[1].fill_opacity =
                             IF over.val[2] # None THEN over.val[2] ELSE Or(Raw("fillAlpha"), None)
        ELSE Returned =>
                 /\ ret.val[1].fill = own.val[1]
                 /\ ret.val[1].fill_opacity = Or(Raw("fillAlpha"), own.val[2])

\* C6 as stated, for a path element with one fill-color definition holding a
\* gradient: the representative color is the start-color if that attribute
\* is there, else the first item's color if there, else none; it replaces
\* the raw fill color and its alpha, if any, the raw fill-alpha.
C6_AsStated ==
    (Resolved /\ Len(FillDefs(arg.element)) = 1 /\ Len(arg.element.children) = 1
        /\ Truthy(Or(arg.override_d, Raw("pathData")))) =>
        FillFollows(ChosenColor(Head(FillDefs(arg.element)), Exists))

\* C6, amended.  The representative color comes from the first fill-color
\* definition, in document order, whose gradient has a non-empty start-color
\* or, failing that, a first item with a non-empty color: the start-color
\* wins over the items, and an empty attribute counts as absent.  The color
\* is normalized (which raises on a malformed 8-digit color, C3); if what is
\* left is non-empty it replaces the raw fill color and its alpha, if it has
\* one, replaces the raw fill-alpha; otherwise there is no override.
C6_GradientPrecedence ==
    (Resolved /\ FillDefs(arg.element) # << >>
        /\ Truthy(Or(arg.override_d, Raw("pathData")))) =>
        FillFollows(Representative(arg.element, Truthy))

\* A record was built from a gradient that has both a start-color and an
\* item with a color, and carries the start-color.
C6_Witness ==
    /\ Returned
    /\ Len(FillDefs(arg.element)) = 1
    /\ \E g \in Gradients :
           /\ findall(Head(FillDefs(arg.element)), <<"gradient">>) = <<g>>
           /\ Truthy(get(g.attrib, Android("startColor")))
           /\ ChosenColor(Head(FillDefs(arg.element)), Truthy)
                  = get(g.attrib, Android("startColor"))
           /\ findall(g, <<"item">>) # << >>
           /\ Truthy(get(Head(findall(g, <<"item">>)).attrib, Android("color")))
    /\ ret.val[1].fill = <<"#", "A", "A", "0", "0", "0", "0">>
    /\ ret.val[1].fill_opacity = <<"0", ".", "5", "0", "2">>

\* The gradient gives the fill its alpha.
GradientAlpha ==
    /\ extract_gradient_color(arg.element).exc = NoExc
    /\ Truthy(extract_gradient_color(arg.element).val[1])
    /\ extract_gradient_color(arg.element).val[2] # None

\* The fill color that is normalized: the gradient's, or else the raw one.
EffectiveFill ==
    IF Truthy(extract_gradient_color(arg.element).val[1])
    THEN extract_gradient_color(arg.element).val[1]
    ELSE Raw("fillColor")

\* An absent text and an empty one are taken as the same opacity.
Opacity(text) == Or(text, None)

\* The opacity by the stated precedence: the alpha attribute if it is
\* there, else the opacity of the normalized color.
Precedence(alpha, color, There(_)) ==
    IF There(alpha) THEN alpha ELSE normalize_color(color).val[2]

\* C7 as stated: without a gradient alpha, the fill-opacity of the record is
\* the fill-alpha attribute whenever that attribute is present, and the
\* opacity of the normalized fill color only when it is absent; the same
\* for stroke-opacity, stroke-alpha and the stroke color.
C7_AsStated ==
    Returned =>
        /\ ~GradientAlpha =>
               Opacity(ret.val[1].fill_opacity)
                   = Opacity(Precedence(Raw("fillAlpha"), EffectiveFill, Exists))
        /\ Opacity(ret.val[1].stroke_opacity)
               = Opacity(Precedence(Raw("strokeAlpha"), Raw("strokeColor"), Exists))

\* C7, amended.  Without a gradient alpha, the fill-opacity of the record is
\* the fill-alpha attribute whenever that attribute is present and not
\* empty, and otherwise (absent or empty) the opacity of the normalized fill
\* color, which may be absent; the same for stroke-opacity.
C7_OpacityPrecedence ==
    Returned =>
        /\ ~GradientAlpha =>
               ret.val[1].fill_opacity = Precedence(Raw("fillAlpha"), EffectiveFill, Truthy)
        /\ ret.val[1].stroke_opacity
               = Precedence(Raw("strokeAlpha"), Raw("strokeColor"), Truthy)

\* A record for an element that has both a fill-alpha and a fill color with
\* an alpha pair, and both a stroke-alpha and such a stroke color.
C7_Witness ==
    /\ Returned
    /\ ~GradientAlpha
    /\ Raw("fillAlpha") = <<"0", ".", "5">>
    /\ Raw("fillColor") = HalfRed
    /\ Raw("strokeAlpha") = <<"0", ".", "7">>
    /\ Raw("strokeColor") = HalfBlack

\* The attribute names of a <path>, in the order of emission, and the field
\* of the record each one renders.
PathAttributes ==
    <<"d", "fill", "fill-opacity", "stroke", "stroke-opacity", "stroke-width", "fill-rule">>

Field(self, name) ==
    CASE name = "d" -> self.d
      [] name = "fill" -> self.fill
      [] name = "fill-opacity" -> self.fill_opacity
      [] name = "stroke" -> self.stroke
      [] name = "stroke-opacity" -> self.stroke_opacity
      [] name = "stroke-width" -> self.stroke_width
      [] name = "fill-rule" -> self.fill_rule

\* What a <path> must be made of: d, then fill with the record's fill or
\* none, then each further attribute whose field is there.
Emitted(self, There(_)) ==
    LET names == SelectSeq(PathAttributes,
                           LAMBDA n : n \in {"d", "fill"} \/ There(Field(self, n)))
    IN  [k \in 1..Len(names) |->
            IF names[k] = "fill" /\ ~There(self.fill)
            THEN Attr("fill", <<"n", "o", "n", "e">>)
            ELSE Attr(names[k], Field(self, names[k]))]

\* C9 as stated: a <path> has exactly one fill attribute, directly after d,
\* with the record's fill when a fill is present and none when it is
\* absent; fill-opacity, stroke, stroke-opacity, stroke-width and fill-rule
\* are emitted if and only if present, in that order.
C9_AsStated ==
    pc = "done" =>
        /\ out.attrs = Emitted(ret.val[1], Exists)
        /\ out.text = <<"  <path ">> \o join(<<" ">>, Emitted(ret.val[1], Exists)) \o <<" />">>

\* C9, amended.  A <path> has exactly one fill attribute, directly after d:
\* the record's fill when it is present and not empty, and none otherwise;
\* fill-opacity, stroke, stroke-opacity, stroke-width and fill-rule are
\* emitted if and only if present and not empty, in that order.
C9_PathAttributes ==
    pc = "done" =>
        /\ out.attrs = Emitted(ret.val[1], Truthy)
        /\ out.text = <<"  <path ">> \o join(<<" ">>, Emitted(ret.val[1], Truthy)) \o <<" />">>
        /\ Cardinality({k \in 1..Len(out.attrs) : Head(out.attrs[k]) = "fill"}) = 1
        /\ Head(out.attrs[2]) = "fill"

\* A record without a fill and without a stroke width has been serialized.
C9_Witness ==
    /\ pc = "done"
    /\ ret.val[1].fill = None
    /\ ret.val[1].stroke_width = None
    /\ ret.val[1].stroke # None
    /\ out.attrs[2] = Attr("fill", <<"n", "o", "n", "e">>)

(***************************************************************************)
(* extract_paths on trees                                                  *)
(*                                                                         *)
(* A tree is a root with up to MaxKids children.  The child at position j  *)
(* is of one of the kinds below; every path and clip-path element of a     *)
(* tree has a strokeWidth of its own, by which a record tells the element  *)
(* it was built from.                                                      *)
(***************************************************************************)
MaxKids == 4

Label(letter, j, suffix) == <<letter, Digit(j)>> \o suffix

Kinds == {"path", "bare", "clip", "clipbare", "clipempty", "defs", "group", "pair", "bad"}

Child(j, kind) ==
    CASE kind = "path" ->
            PathElement(Opt("pathData", <<"P", Digit(j)>>) @@ Opt("fillColor", HalfRed)
                        @@ Opt("strokeWidth", Label("w", j, Empty))
                        @@ Opt("fillType", <<"evenOdd">>))
      [] kind = "bare" -> PathElement(Opt("strokeWidth", Label("w", j, Empty)))
      [] kind = "clip" ->
            Element(<<"clip-path">>,
                    Opt("pathData", <<"C", Digit(j)>>) @@ Opt("strokeWidth", Label("c", j, Empty)),
                    << >>)
      [] kind = "clipbare" ->
            Element(<<"clip-path">>, Opt("strokeWidth", Label("c", j, Empty)), << >>)
      [] kind = "clipempty" ->
            Element(<<"clip-path">>,
                    Opt("pathData", Empty) @@ Opt("strokeWidth", Label("c", j, Empty)), << >>)
      [] kind = "defs" ->
            Element(<<"defs">>, NoAttrib,
                    <<PathElement(Opt("pathData", <<"D", Digit(j)>>)
                                  @@ Opt("strokeWidth", Label("w", j, <<"d">>)))>>)
      [] kind = "group" ->
            Element(ANDROID_NS \o <<"group">>, NoAttrib,
                    <<PathElement(Opt("pathData", <<"G", Digit(j)>>)
                                  @@ Opt("strokeWidth", Label("w", j, <<"g">>))),
                      PathElement(Opt("pathData", <<"H", Digit(j)>>)
                                  @@ Opt("strokeWidth", Label("w", j, <<"h">>)))>>)
      [] kind = "pair" ->
            Element(<<"group">>, NoAttrib,
                    <<PathElement(Opt("pathData", <<"Q", Digit(j)>>)
                                  @@ Opt("strokeWidth", Label("w", j, <<"q">>))),
                      Element(<<"clip-path">>,
                              Opt("pathData", <<"K", Digit(j)>>)
                              @@ Opt("strokeWidth", Label("c", j, <<"k">>)), << >>)>>)
      [] kind = "bad" ->
            PathElement(Opt("pathData", <<"B", Digit(j)>>) @@ Opt("fillColor", BadColor)
                        @@ Opt("strokeWidth", Label("w", j, Empty)))

\* The tree with the given root tag whose j-th child is of the kind kinds[j].
Tree(tag, kinds) ==
    Element(tag, NoAttrib, [j \in 1..Len(kinds) |-> Child(j, kinds[j])])

RootTags == {<<"group">>, <<"vector">>}

InitWalk ==
    /\ pc = "call"
    /\ \E tag \in RootTags, n \in 0..MaxKids :
           \E kinds \in [1..n -> Kinds] : arg = Tree(tag, kinds)
    /\ ret = Return(<< >>)
    /\ Idle

Walk ==
    /\ pc = "call"
    /\ pc' = "done"
    /\ ret' = extract_paths(arg)
    /\ UNCHANGED <<outDir, srcs, idx, arg, out>>

NextWalk == Walk

SpecWalk == InitWalk /\ [][NextWalk]_vars

(***************************************************************************)
(* Properties of extract_paths                                             *)
(***************************************************************************)
IsPath(element) == element.tag \in {<<"path">>, ANDROID_NS \o <<"path">>}

IsClip(element) == element.tag \in {<<"clip-path">>, ANDROID_NS \o <<"clip-path">>}

IsGroup(element) == element.tag \in {<<"group">>, ANDROID_NS \o <<"group">>}

Clips(element) == SelectSeq(element.children, IsClip)

Paths(element) == SelectSeq(element.children, IsPath)

\* A group with direct clip-path and direct path children.
Pairing(element) == IsGroup(element) /\ Clips(element) # << >> /\ Paths(element) # << >>

PathData(element) == get(element.attrib, Android("pathData"))

StrokeWidth(element) == get(element.attrib, Android("strokeWidth"))

Pairs == 1..min(Len(Clips(arg)), Len(Paths(arg)))

\* The record is built from the path element, but for its geometry.
Carries(record, element) ==
    /\ record.stroke_width = StrokeWidth(element)
    /\ record.fill_rule = get(element.attrib, Android("fillType"))
    /\ record.fill = normalize_color(get(element.attrib, Android("fillColor"))).val[1]
    /\ record.fill_opacity = normalize_color(get(element.attrib, Android("fillColor"))).val[2]
    /\ record.stroke = None
    /\ record.stroke_opacity = None

\* C4 as stated, for the calls that return: a group with m >= 1 direct
\* clip-path and n >= 1 direct path children gives exactly min(m, n)
\* records, the i-th with the attributes of the i-th path child and the
\* path-data of the i-th clip-path child as its geometry.
C4_AsStated ==
    (pc = "done" /\ Pairing(arg) /\ ret.exc = NoExc) =>
        /\ Len(ret.val) = min(Len(Clips(arg)), Len(Paths(arg)))
        /\ \A i \in Pairs :
               /\ Carries(ret.val[i], Paths(arg)[i])
               /\ ret.val[i].d = PathData(Clips(arg)[i])

\* The geometry of the i-th pair: the clip-path's path-data, or the path's
\* own when the clip-path has none or an empty one.
Geometry(i) == Or(PathData(Clips(arg)[i]), PathData(Paths(arg)[i]))

\* The pairs that yield a record.
Yielding == {i \in Pairs : Truthy(Geometry(i))}

\* C4, amended.  For a group with m >= 1 direct clip-path and n >= 1 direct
\* path children, the i-th pair, i < min(m, n), has as geometry the path-data
\* of the i-th clip-path child if that is present and not empty, and else
\* the i-th path child's own path-data; a pair whose geometry is absent or
\* empty yields no record.  extract_paths raises ValueError if a yielding
\* pair's path child has a malformed 8-digit color (C3); otherwise it
\* returns one record for each yielding pair, in order of i, hence at most
\* min(m, n) records, each with the attributes of its path child and the
\* geometry of its pair.  Clip-paths and paths beyond min(m, n) and every
\* other child of the group contribute nothing.
C4_GroupPairing ==
    (pc = "done" /\ Pairing(arg)) =>
        IF \E i \in Yielding : svg_path_from_element(Paths(arg)[i], None).exc # NoExc
        THEN ret.exc = "ValueError"
        ELSE /\ ret.exc = NoExc
             /\ Len(ret.val) = Cardinality(Yielding)
             /\ Len(ret.val) <= min(Len(Clips(arg)), Len(Paths(arg)))
             /\ \A i \in Yielding :
                    /\ Carries(ret.val[Cardinality({j \in Yielding : j <= i})], Paths(arg)[i])
                    /\ ret.val[Cardinality({j \in Yielding : j <= i})].d = Geometry(i)

\* Two clip-paths and two paths have been paired, both with the clip-path's
\* geometry, which is not the path's own.
C4_Witness ==
    /\ pc = "done"
    /\ IsGroup(arg)
    /\ Len(Clips(arg)) = 2
    /\ Len(Paths(arg)) = 2
    /\ ret.exc = NoExc
    /\ Len(ret.val) = 2
    /\ \A i \in 1..2 :
           /\ ret.val[i].d = PathData(Clips(arg)[i])
           /\ Truthy(PathData(Paths(arg)[i]))
           /\ ret.val[i].d # PathData(Paths(arg)[i])

\* The strokeWidths of the path elements of a tree, in depth-first
\* pre-order.
RECURSIVE PreOrder(_)
RECURSIVE PreOrderAll(_)
PreOrder(element) ==
    (IF IsPath(element) THEN <<StrokeWidth(element)>> ELSE << >>)
    \o PreOrderAll(element.children)

PreOrderAll(children) ==
    IF children = << >> THEN << >>
    ELSE PreOrder(Head(children)) \o PreOrderAll(Tail(children))

\* s is t with some elements left out.
RECURSIVE IsSubsequence(_, _)
IsSubsequence(s, t) ==
    IF s = << >> THEN TRUE
    ELSE IF t = << >> THEN FALSE
    ELSE IF Head(s) = Head(t) THEN IsSubsequence(Tail(s), Tail(t))
    ELSE IsSubsequence(s, Tail(t))

\* The outputs of the children, one after the other.
RECURSIVE Concatenation(_)
Concatenation(children) ==
    IF children = << >> THEN << >>
    ELSE extract_paths(Head(children)).val \o Concatenation(Tail(children))

\* C10: the records of a walk that returns come from path elements of the
\* tree, at most one from each, in the order of those elements in a
\* depth-first pre-order walk; no record comes from a clip-path element;
\* and the output of a group without both direct clip-path and direct path
\* children, of the root and of an unknown element is the concatenation of
\* its children's outputs in child order.
C10_DocumentOrder ==
    (pc = "done" /\ ret.exc = NoExc) =>
        /\ IsSubsequence([k \in 1..Len(ret.val) |-> ret.val[k].stroke_width], PreOrder(arg))
        /\ \A k, l \in 1..Len(ret.val) : ret.val[k].stroke_width = ret.val[l].stroke_width => k = l
        /\ ~Pairing(arg) =>
               /\ \A k \in 1..Len(arg.children) : extract_paths(arg.children[k]).exc = NoExc
               /\ ret.val = Concatenation(arg.children)

\* A group with a direct clip-path child, no direct path child and nested
\* elements has been walked, and gave records of several of its children.
C10_Witness ==
    /\ pc = "done"
    /\ ret.exc = NoExc
    /\ IsGroup(arg)
    /\ \E k \in 1..Len(arg.children) :
           IsClip(arg.children[k]) /\ Truthy(PathData(arg.children[k]))
    /\ Paths(arg) = << >>
    /\ \E k, l \in 1..Len(arg.children) :
           /\ k < l
           /\ arg.children[k].tag = <<"defs">>
           /\ Pairing(arg.children[l])
    /\ Len(ret.val) >= 3

(***************************************************************************)
(* vector_to_svg on files                                                  *)
(***************************************************************************)
ViewportTexts == {None, <<"x">>, <<"2", "4">>, <<"1", "0", "8", ".", "5">>}

\* Files with one path element, and files without a usable viewport.
ConvertFiles ==
    {MalformedFile}
    \cup {File(Vector(Viewport(w, h), << >>)) : w, h \in ViewportTexts}
    \cup {File(Vector(Viewport(<<"2", "4">>, <<"2", "4">>), <<element>>)) :
             element \in PlainPaths \cup GradientPaths}

InitConvert == pc = "call" /\ arg \in ConvertFiles /\ ret = Return(Empty) /\ Idle

Convert ==
    /\ pc = "call"
    /\ pc' = "done"
    /\ ret' = vector_to_svg(arg)
    /\ UNCHANGED <<outDir, srcs, idx, arg, out>>

NextConvert == Convert

SpecConvert == InitConvert /\ [][NextConvert]_vars

\* The root has the attribute and float() reads it.
Parsable(root, name) ==
    /\ Android(name) \in DOMAIN root.attrib
    /\ float(root.attrib[Android(name)]).exc = NoExc

\* C3 as stated: a conversion of a well-formed tree whose root carries
\* parsable viewportWidth and viewportHeight returns SVG text, whatever the
\* colors, alphas, stroke width, fill type and path-data of its elements,
\* and a conversion fails only for a missing viewport attribute or a
\* malformed source.
C3_AsStated ==
    pc = "done" =>
        /\ (/\ arg.wellformed
            /\ Parsable(arg.root, "viewportWidth")
            /\ Parsable(arg.root, "viewportHeight")) => ret.exc = NoExc
        /\ (ret.exc # NoExc /\ ~arg.wellformed) => ret.exc = "ParseError"

====
